---- MODULE Spec2Model ----
(***************************************************************************)
(* MyCobot Workspace Explorer: the exploration state machine of           *)
(* WorkspaceGUI (gui_node.py), its canvas colour array, its defensive     *)
(* hardware wrappers and the rectangular grid generator.                  *)
(*                                                                         *)
(* Every handler of the single UI thread (button slots, the 200 ms timer, *)
(* the 250 ms one-shot continuation) is one action.  The hardware is the  *)
(* environment: each call on the connection handle either raises or       *)
(* returns, and what it returns is an input of the action.                *)
(***************************************************************************)
EXTENDS Integers, Sequences, FiniteSets, TLC

(***************************************************************************)
(* Bounds of the model.                                                    *)
(***************************************************************************)
GridCols == 2   \* X values of the scaled-down grid, hence poses in the set
MaxOvershoot == 1   \* how far Skip may push the cursor past the end
MaxResults == 1   \* Visit results kept before Clear Log must run
MaxPending == 2   \* one-shot continuations pending at once
MaxLogged == 2   \* Visit results kept when the log is exported

(***************************************************************************)
(* Python values.                                                          *)
(***************************************************************************)
None == <<>>                 \* None / an absent pose (falsy, like [] )
NoExc == "none"              \* the handler returned normally
NoFile == <<>>               \* no file was written

\* colours of MplCanvas, RGBA in tenths
BLUE == <<0, 0, 10, 4>>
YELLOW == <<10, 10, 0, 9>>
WHITE == <<10, 10, 10, 7>>
RED == <<10, 0, 0, 10>>
GRAY == <<5, 5, 5, 8>>
GREEN == <<0, 10, 0, 10>>

GridStep == 50
PassThreshold == 10
HoldSpeed == 1
HomeSpeed == 10
DefaultSpeed == 10
HomeAngles == <<0, 0, 0, 0, 0, 0>>

(***************************************************************************)
(* generate_grid_points                                                    *)
(***************************************************************************)
\* list(range(lo, hi, step)) for a step other than 0 (range raises on 0)
RECURSIVE PyRange(_, _, _)
PyRange(lo, hi, step) ==
  IF step > 0
  THEN IF lo >= hi THEN <<>> ELSE <<lo>> \o PyRange(lo + step, hi, step)
  ELSE IF lo <= hi THEN <<>> ELSE <<lo>> \o PyRange(lo + step, hi, step)

RECURSIVE Concat(_)
Concat(ss) == IF ss = <<>> THEN <<>> ELSE Head(ss) \o Concat(Tail(ss))

\* what a call does: it returns a value, or raises
Returns(v) == [exc |-> NoExc, value |-> v]
Raises(e) == [exc |-> e, value |-> None]

\* (variant, C14) the loops over X and Y are exchanged
generate_grid_points_y_major(x_range, y_range, z_values, step) ==
  IF z_values # <<>> /\ step = 0 THEN Raises("ValueError")
  ELSE
  LET xs == PyRange(x_range[1], x_range[2] + 1, step)
      ys == PyRange(y_range[1], y_range[2] + 1, step)
      row(z, y) == [i \in 1..Len(xs) |-> <<xs[i], y, z, 180, 0, 0>>]
      layer(z) == Concat([j \in 1..Len(ys) |-> row(z, ys[j])])
  IN  Returns(Concat([k \in 1..Len(z_values) |-> layer(z_values[k])]))

\* with a step of 0 the first range() of the first Z layer raises ValueError
generate_grid_points(x_range, y_range, z_values, step) ==
  IF z_values # <<>> /\ step = 0 THEN Raises("ValueError")
  ELSE
  LET xs == PyRange(x_range[1], x_range[2] + 1, step)
      ys == PyRange(y_range[1], y_range[2] + 1, step)
      row(z, x) == [j \in 1..Len(ys) |-> <<x, ys[j], z, 180, 0, 0>>]
      layer(z) == Concat([i \in 1..Len(xs) |-> row(z, xs[i])])
  IN  Returns(Concat([k \in 1..Len(z_values) |-> layer(z_values[k])]))

\* self.points: the grid on a scaled-down range
points == generate_grid_points(<<0, (GridCols - 1) * GridStep>>, <<0, 0>>,
                               <<100>>, GridStep).value
N == Len(points)

(***************************************************************************)
(* point_generator.generate_points.  Its poses have two decimals: they are *)
(* kept in hundredths.                                                     *)
(***************************************************************************)
Z_LAYERS == <<40, 100, 150, 200>>
MAX_RADIUS == 200
RADIUS_STEP == 20
ANGLE_STEPS == 12
RX_FIXED == 180
RY_FIXED == 0
RZ_FIXED == 0
MAX_REACH == 280

Cent(v) == 100 * v

\* floor of the square root of m, searched in lo..hi
RECURSIVE ISqrtBetween(_, _, _)
ISqrtBetween(m, lo, hi) ==
  IF lo >= hi THEN lo
  ELSE LET mid == (lo + hi + 1) \div 2
       IN  IF mid * mid <= m THEN ISqrtBetween(m, mid, hi)
           ELSE ISqrtBetween(m, lo, mid - 1)

\* the square root of m rounded to the nearest integer
RoundSqrt(m) ==
  LET n == ISqrtBetween(m, 0, 46340)
  IN  IF (2 * n + 1) * (2 * n + 1) < 4 * m THEN n + 1 ELSE n

\* round(radius * math.cos(2 * math.pi * i / 12), 2), in hundredths:
\* the cosines of the multiples of 30 degrees are 0, 1/2, sqrt(3)/2 and 1
round_cos(radius, i) ==
  LET c == i % 12
      r3 == RoundSqrt(7500 * radius * radius)
  IN  CASE c = 0 -> 100 * radius
        [] c \in {1, 11} -> r3
        [] c \in {2, 10} -> 50 * radius
        [] c \in {3, 9} -> 0
        [] c \in {4, 8} -> 0 - 50 * radius
        [] c \in {5, 7} -> 0 - r3
        [] c = 6 -> 0 - 100 * radius

\* round(radius * math.sin(2 * math.pi * i / 12), 2): the sine is the cosine
\* a quarter turn back
round_sin(radius, i) == round_cos(radius, i + 9)

\* (variant, C15) the reach is tested in the plane, the height forgotten
within_reach_planar(x, y, z) ==
  x * x + y * y <= Cent(MAX_REACH) * Cent(MAX_REACH)

\* lines 19-20: math.sqrt(x**2 + y**2 + z**2) <= MAX_REACH
within_reach(x, y, z) ==
  x * x + y * y + Cent(z) * Cent(z) <= Cent(MAX_REACH) * Cent(MAX_REACH)

\* the locals of generate_points: layer index (from 1), radius, angle index
NoFrame == [zi |-> 0, radius |-> 0, i |-> 0, points |-> <<>>]
polar_returning(f) == f.zi > Len(Z_LAYERS)

\* the loop headers of lines 12-15 and line 22: on to the next sample
RECURSIVE next_sample(_)
next_sample(f) ==
  IF polar_returning(f) THEN f
  ELSE IF f.radius > MAX_RADIUS
       THEN next_sample([f EXCEPT !.zi = @ + 1, !.radius = RADIUS_STEP, !.i = 0])
       ELSE IF f.i >= ANGLE_STEPS
            THEN next_sample([f EXCEPT !.radius = @ + RADIUS_STEP, !.i = 0])
            ELSE f

\* lines 16-18: the sample of the frame
polar_x(f) == round_cos(f.radius, f.i)
polar_y(f) == round_sin(f.radius, f.i)
polar_z(f) == Z_LAYERS[f.zi]
polar_pose(f) == <<polar_x(f), polar_y(f), Cent(polar_z(f)),
                   Cent(RX_FIXED), Cent(RY_FIXED), Cent(RZ_FIXED)>>
polar_emits(f) == within_reach(polar_x(f), polar_y(f), polar_z(f))

\* lines 16-21: one turn of the innermost loop
polar_step(f) ==
  LET f1 == IF polar_emits(f)
            THEN [f EXCEPT !.points = Append(@, polar_pose(f))]
            ELSE f
  IN  next_sample([f1 EXCEPT !.i = @ + 1])

\* lines 11-13: the frame when the first sample is reached
polar_entry == next_sample([zi |-> 1, radius |-> RADIUS_STEP, i |-> 0,
                            points |-> <<>>])

(***************************************************************************)
(* The environment: what the arm can answer.                               *)
(***************************************************************************)
Readings == { <<3, 3, 100, 90, 0, 0>>,      \* 6 mm from points[0], turned
              <<5, 5, 100, 180, 0, 0>> }    \* exactly 10 mm from points[0]
\* the pose a readable arm reports under Spec
OneReading == { <<5, 5, 100, 180, 0, 0>> }
\* answers of mc.get_coords(): it raises, or returns one of the poses R
GetAnswers(R) == {[raises |-> TRUE, value |-> None]}
                   \cup {[raises |-> FALSE, value |-> p] : p \in R}
\* answers of mc.is_moving(): it raises, or returns a boolean
MovingAnswers == {[raises |-> r, value |-> v] : r, v \in BOOLEAN} \
                   {[raises |-> TRUE, value |-> TRUE]}
\* self.speed_slider.value(): the slider is read when a move is sent
SpeedValues == {1, DefaultSpeed}
\* jog buttons pressed: (axis, signed step of the spin box)
JogButtons == {<<0, 0 - 10>>, <<1, 10>>, <<2, 15>>}

VARIABLES
  mc,            \* TRUE iff the connection handle exists (self.mc is not None)
  has_stop,      \* hasattr(self.mc, "stop")
  current_index, robot_busy, paused, stopped,
  pause_btn,     \* checked state of the Pause button
  colors,        \* canvas.colors
  pose_labels,   \* the six readout labels in tenths, None while "N/A"
  results,       \* self.results
  pending,       \* QTimer.singleShot(250, move_to_next_point) not yet fired
  calls,         \* calls made on the handle by the last handler, in order
  status,        \* lines the last handler appended to the status box
  exc,           \* exception the last handler propagated, NoExc if none
  written,       \* rows of the file the last handler wrote, NoFile if none
  indexed,       \* subscripts the last handler applied to self.points, in order
  outcome,       \* outcome of the last call of a point generator, None if none
  sent,          \* history: moves commanded through safe_mc_send_coords; how
                 \* much of it is kept depends on the specification
  frame,         \* locals of generate_points while it runs (zi = 0: not running)
  aborted,       \* the process died from an unhandled exception
  last           \* the last handler run and its arguments

vars == <<mc, has_stop, current_index, robot_busy, paused, stopped, pause_btn,
          colors, pose_labels, results, pending, calls, status,
          exc, written, indexed, outcome, frame,
          sent, aborted, last>>

\* the object's fields as one value, threaded through the method bodies
Self == [mc |-> mc, has_stop |-> has_stop, current_index |-> current_index,
         robot_busy |-> robot_busy, paused |-> paused, stopped |-> stopped,
         pause_btn |-> pause_btn,
         colors |-> colors, pose_labels |-> pose_labels, results |-> results,
         pending |-> pending, calls |-> <<>>, status |-> <<>>, exc |-> NoExc,
         written |-> NoFile, indexed |-> <<>>, sent |-> sent]

Call(op, coords, speed, raised, ret) ==
  [op |-> op, coords |-> coords, speed |-> speed, raised |-> raised, ret |-> ret]
hw(s, c) == [s EXCEPT !.calls = Append(@, c)]
raise(s, e) == [s EXCEPT !.exc = e]

(***************************************************************************)
(* MplCanvas                                                               *)
(***************************************************************************)
update_point_color(cs, index, color) ==
  IF ~(0 <= index /\ index < N) THEN cs
  ELSE [cs EXCEPT ![index + 1] = color]

\* (variant, C12) a negative index wraps round, as a Python list index does
highlight_point_wrapping(cs, index) ==
  LET reset == [i \in 1..N |-> IF cs[i] \in {WHITE, RED} THEN cs[i] ELSE BLUE]
  IN  IF 0 - N <= index /\ index < N
      THEN [reset EXCEPT ![((index + N) % N) + 1] = YELLOW]
      ELSE reset

\* (variant, C24) the pass resets the verdict colours too
highlight_point_resets_all(cs, index) ==
  LET reset == [i \in 1..N |-> BLUE]
  IN  IF 0 <= index /\ index < N THEN [reset EXCEPT ![index + 1] = YELLOW]
      ELSE reset

highlight_point(cs, index) ==
  LET reset == [i \in 1..N |-> IF cs[i] \in {WHITE, RED} THEN cs[i] ELSE BLUE]
  IN  IF 0 <= index /\ index < N THEN [reset EXCEPT ![index + 1] = YELLOW]
      ELSE reset

(***************************************************************************)
(* Logging and the hardware wrappers                                       *)
(***************************************************************************)
log(s, message) == [s EXCEPT !.status = Append(@, message)]

\* the history of the moves commanded
commanded(s, coords, ok) ==
  [s EXCEPT !.sent = Append(@, [coords |-> coords, accepted |-> ok])]

\* (variant, C20) the flag is raised before the call and a failure leaves it
safe_mc_send_coords_busy_first(s, coords, speed, ok) ==
  IF ~s.mc THEN log(s, "No robot connected.")
  ELSE IF ok
       THEN [hw(commanded(s, coords, ok),
                Call("send_coords", coords, speed, FALSE, None))
               EXCEPT !.robot_busy = TRUE]
       ELSE [log(hw(commanded(s, coords, ok),
                    Call("send_coords", coords, speed, TRUE, None)),
                 "send_coords failed")
               EXCEPT !.robot_busy = TRUE]

safe_mc_send_coords(s, coords, speed, ok) ==
  IF ~s.mc THEN log(s, "No robot connected.")
  ELSE IF ok
       THEN [hw(commanded(s, coords, ok),
                Call("send_coords", coords, speed, FALSE, None))
               EXCEPT !.robot_busy = TRUE]
       ELSE [log(hw(commanded(s, coords, ok),
                    Call("send_coords", coords, speed, TRUE, None)),
                 "send_coords failed")
               EXCEPT !.robot_busy = FALSE]

safe_mc_get_coords(s, ans) ==
  IF ~s.mc THEN [s |-> s, ret |-> None]
  ELSE [s |-> hw(s, Call("get_coords", None, 0, ans.raises, ans.value)),
        ret |-> IF ans.raises THEN None ELSE ans.value]

safe_mc_is_moving(s, ans) ==
  IF ~s.mc THEN [s |-> s, ret |-> FALSE]
  ELSE [s |-> hw(s, Call("is_moving", None, 0, ans.raises, None)),
        ret |-> IF ans.raises THEN FALSE ELSE ans.value]

attempt_stop_api(s, ok) ==
  IF ~s.mc THEN [s |-> s, ret |-> FALSE]
  ELSE IF s.has_stop
       THEN IF ok
            THEN [s |-> log(hw(s, Call("stop", None, 0, FALSE, None)),
                            "Called mc.stop()"),
                  ret |-> TRUE]
            ELSE [s |-> log(hw(s, Call("stop", None, 0, TRUE, None)),
                            "mc.stop() raised"),
                  ret |-> FALSE]
       ELSE [s |-> s, ret |-> FALSE]

(***************************************************************************)
(* UI actions                                                              *)
(***************************************************************************)
\* self.points[index]: a list subscript; a negative one counts from the end,
\* one outside [-N, N) raises IndexError
subscript(index) ==
  IF index \in (0 - N)..(N - 1) THEN Returns(points[((index + N) % N) + 1])
  ELSE Raises("IndexError")

\* the subscript is noted
subscripted(s, index) == [s EXCEPT !.indexed = Append(@, index)]

\* (variant, C2) the guard forgets the stop latch
refuses_move_paused_only(s) == s.paused

\* (variant, C8) the guard forgets the pause
refuses_move_stopped_only(s) == s.stopped

\* line 429 (and 415): the guard of move_to_next_point and of jog_axis
refuses_move(s) == s.paused \/ s.stopped

\* (variant, C21) the end test lets the cursor N through
move_to_next_point_past_end(s, speed, ok) ==
  IF refuses_move(s)
  THEN log(s, "Move to next aborted: paused/stopped.")
  ELSE IF s.current_index > N
       THEN log(s, "Exploration finished.")
       ELSE LET t == subscript(s.current_index)
                s1 == log(subscripted(s, s.current_index), "Moving to target")
                s2 == [s1 EXCEPT !.colors = highlight_point(@, s.current_index)]
            IN  IF t.exc # NoExc
                THEN raise(subscripted(s, s.current_index), t.exc)
                ELSE safe_mc_send_coords(s2, t.value, speed, ok)

move_to_next_point(s, speed, ok) ==
  IF refuses_move(s)
  THEN log(s, "Move to next aborted: paused/stopped.")
  ELSE IF s.current_index >= N
       THEN log(s, "Exploration finished.")
       ELSE LET t == subscript(s.current_index)
                s1 == log(subscripted(s, s.current_index), "Moving to target")
                s2 == [s1 EXCEPT !.colors = highlight_point(@, s.current_index)]
            IN  IF t.exc # NoExc
                THEN raise(subscripted(s, s.current_index), t.exc)
                ELSE safe_mc_send_coords(s2, t.value, speed, ok)

\* (variant, C7) the cursor is not pushed past the end
skip_point_clamped(s, speed, ok) ==
  LET s1 == [s EXCEPT !.current_index = IF @ < N THEN @ + 1 ELSE @]
  IN  IF s1.current_index < N THEN move_to_next_point(s1, speed, ok) ELSE s1

skip_point(s, speed, ok) ==
  LET s1 == [s EXCEPT !.current_index = @ + 1]
  IN  IF s1.current_index < N THEN move_to_next_point(s1, speed, ok) ELSE s1

color_current_point(s) ==
  IF s.current_index < N
  THEN [s EXCEPT !.colors = update_point_color(@, s.current_index, GREEN)]
  ELSE s

start_exploration(s, speed, ok) ==
  IF s.stopped THEN log(s, "System stopped. Clear stop to start.")
  ELSE LET s1 == IF s.paused
                 THEN [log(s, "Resuming from paused state.")
                         EXCEPT !.paused = FALSE, !.pause_btn = FALSE]
                 ELSE s
           s2 == log(s1, "Starting exploration.")
           s3 == IF s2.current_index >= N
                 THEN log([s2 EXCEPT !.current_index = 0],
                          "Restarting from index 0.")
                 ELSE s2
           s4 == [s3 EXCEPT !.colors = highlight_point(@, s3.current_index)]
       IN  move_to_next_point(s4, speed, ok)

\* (variant, C22) un-pausing resumes whether or not a move is outstanding
toggle_pause_always_resumes(s, speed, ok) ==
  LET s1 == [s EXCEPT !.paused = s.pause_btn]
  IN  IF s1.paused THEN log(s1, "Paused exploration.")
      ELSE move_to_next_point(log(s1, "Resumed exploration."), speed, ok)

toggle_pause(s, speed, ok) ==
  LET s1 == [s EXCEPT !.paused = s.pause_btn]
  IN  IF s1.paused THEN log(s1, "Paused exploration.")
      ELSE LET s2 == log(s1, "Resumed exploration.")
           IN  IF ~s2.robot_busy THEN move_to_next_point(s2, speed, ok) ELSE s2

\* (variant, C1) the flags are set only when the hardware stop did not work
latch_stop_if_needed(s) ==
  IF s.mc /\ s.has_stop THEN s
  ELSE [s EXCEPT !.stopped = TRUE, !.paused = TRUE, !.pause_btn = TRUE]

\* lines 374-376: the flags emergency_stop sets before anything else
latch_stop(s) ==
  [s EXCEPT !.stopped = TRUE, !.paused = TRUE, !.pause_btn = TRUE]

\* (variant, C23) the hold is sent through the wrapper the moves go through
emergency_stop_hold_wrapped(s, stop_ok, ans, hold_ok) ==
  LET s1 == log(latch_stop(s), "EMERGENCY STOP triggered!")
      a == attempt_stop_api(s1, stop_ok)
  IN  IF a.ret THEN a.s
      ELSE LET s2 == log(a.s, "mc.stop() not available or failed.")
               g == safe_mc_get_coords(s2, ans)
           IN  IF g.ret # None
               THEN safe_mc_send_coords(g.s, g.ret, HoldSpeed, hold_ok)
               ELSE g.s

emergency_stop(s, stop_ok, ans, hold_ok) ==
  LET s1 == log(latch_stop(s), "EMERGENCY STOP triggered!")
      a == attempt_stop_api(s1, stop_ok)
  IN  IF a.ret THEN a.s
      ELSE LET s2 == log(a.s, "mc.stop() not available or failed.")
               g == safe_mc_get_coords(s2, ans)
           IN  IF g.ret # None
               THEN IF hold_ok
                    THEN log(hw(g.s, Call("send_coords", g.ret, HoldSpeed,
                                           FALSE, None)),
                             "Issued low-speed hold command to current pose.")
                    ELSE log(hw(g.s, Call("send_coords", g.ret, HoldSpeed,
                                           TRUE, None)),
                             "Fallback hold command failed")
               ELSE g.s

go_home(s, ok) ==
  LET s1 == log(s, "PULANG WES!.")
  IN  IF ~s1.mc THEN raise(s1, "AttributeError")
      ELSE IF ok THEN hw(s1, Call("send_angles", HomeAngles, HomeSpeed,
                                  FALSE, None))
           ELSE raise(hw(s1, Call("send_angles", HomeAngles, HomeSpeed,
                                  TRUE, None)),
                      "HardwareError")

clear_stop(s, release_ok, home_ok) ==
  IF s.stopped
  THEN LET s1 == [s EXCEPT !.stopped = FALSE]
       IN  IF ~s1.mc THEN raise(s1, "AttributeError")
           ELSE IF release_ok
                THEN go_home(hw(s1, Call("release_all_servos", None, 0,
                                         FALSE, None)),
                             home_ok)
                ELSE raise(hw(s1, Call("release_all_servos", None, 0,
                                       TRUE, None)),
                           "HardwareError")
  ELSE s

\* (variant, C9) the delta lands on the component before the selected one
jogged_shifted(coords, axis_index, delta) ==
  IF axis_index \in {0, 1, 2}
  THEN [coords EXCEPT ![IF axis_index = 0 THEN 3 ELSE axis_index] = @ + delta]
  ELSE coords

\* lines 422-424: the jogged copy of the pose
jogged(coords, axis_index, delta) ==
  IF axis_index \in {0, 1, 2}
  THEN [coords EXCEPT ![axis_index + 1] = @ + delta]
  ELSE coords

jog_axis(s, axis_index, delta, ans, speed, ok) ==
  IF refuses_move(s) THEN log(s, "Cannot jog while paused/stopped.")
  ELSE LET g == safe_mc_get_coords(s, ans)
       IN  IF g.ret = None
           THEN log(g.s, "Cannot read current coords; abort jog.")
           ELSE safe_mc_send_coords(log(g.s, "Jogging axis"),
                                    jogged(g.ret, axis_index, delta),
                                    speed, ok)

(***************************************************************************)
(* The 200 ms tick                                                         *)
(***************************************************************************)
Abs(x) == IF x < 0 THEN 0 - x ELSE x

\* f"{v:.1f}" of the six components, in tenths
format_pose(coords) == [i \in 1..6 |-> 10 * coords[i]]

position_error(final, target) ==
  Abs(final[1] - target[1]) + Abs(final[2] - target[2])
    + Abs(final[3] - target[3])

\* (variant, C5) the threshold is inclusive
point_passes_inclusive(error) == error <= PassThreshold

\* line 487: the pass threshold
point_passes(error) == error < PassThreshold

\* lines 469-504: colour the marker and record the Visit result
evaluate_point(s, final) ==
  LET t == subscript(s.current_index)
      s0 == subscripted(s, s.current_index)
      target == t.value
  IN  IF t.exc # NoExc THEN raise(s0, t.exc)
      ELSE IF final = None
      THEN [log(s0, "Could not read final coords for evaluation.")
              EXCEPT !.colors = update_point_color(@, s.current_index, GRAY),
                     !.results = Append(@, [target |-> target,
                                            reached |-> None,
                                            error |-> None,
                                            pass |-> FALSE,
                                            timestamp |-> "utcnow"])]
      ELSE LET error == position_error(final, target)
               passed == point_passes(error)
           IN  [log(s0, IF passed THEN "Point OK" ELSE "Point FAIL")
                  EXCEPT !.colors = update_point_color(@, s.current_index,
                                       IF passed THEN WHITE ELSE RED),
                         !.results = Append(@, [target |-> target,
                                                reached |-> final,
                                                error |-> <<error>>,
                                                pass |-> passed,
                                                timestamp |-> "utcnow"])]

\* (variant, C3) the tick goes on while paused
tick_skipped_unless_paused(s) == s.current_index >= N \/ s.stopped

\* (variant, C11) the tick goes on while stopped
tick_skipped_unless_stopped(s) == s.current_index >= N \/ s.paused

\* line 459: the tick does nothing more
tick_skipped(s) == s.current_index >= N \/ s.paused \/ s.stopped

\* (variant, C4) the next move is dispatched at once, as in the first revision
finish_evaluation_immediate(s) ==
  LET s1 == [s EXCEPT !.robot_busy = FALSE, !.current_index = @ + 1]
  IN  IF ~s1.paused /\ ~s1.stopped
      THEN move_to_next_point(s1, DefaultSpeed, TRUE)
      ELSE s1

\* (variant, C19) the cursor is left where it was
finish_evaluation_same_index(s) ==
  LET s1 == [s EXCEPT !.robot_busy = FALSE]
  IN  IF ~s1.paused /\ ~s1.stopped THEN [s1 EXCEPT !.pending = @ + 1] ELSE s1

\* (variant, C18) robot_busy is not cleared when the next move is scheduled
finish_evaluation_still_busy(s) ==
  LET s1 == [s EXCEPT !.current_index = @ + 1]
  IN  IF ~s1.paused /\ ~s1.stopped THEN [s1 EXCEPT !.pending = @ + 1] ELSE s1

\* lines 506-513: the point is done; the next move is left to a one-shot timer
finish_evaluation(s) ==
  LET s1 == [s EXCEPT !.robot_busy = FALSE, !.current_index = @ + 1]
  IN  IF ~s1.paused /\ ~s1.stopped THEN [s1 EXCEPT !.pending = @ + 1] ELSE s1

check_robot_status(s, ans1, mv, ans2) ==
  LET g == safe_mc_get_coords(s, ans1)
      s1 == IF g.ret # None
            THEN [g.s EXCEPT !.pose_labels = format_pose(g.ret)]
            ELSE g.s
  IN  IF tick_skipped(s1) THEN s1
      ELSE LET m == safe_mc_is_moving(s1, mv)
           IN  IF m.ret THEN m.s
               ELSE IF m.s.robot_busy
                    THEN LET f == safe_mc_get_coords(m.s, ans2)
                             e == evaluate_point(f.s, f.ret)
                         IN  IF e.exc # NoExc THEN e ELSE finish_evaluation(e)
                    ELSE m.s

clear_log(s) == log([s EXCEPT !.results = <<>>], "Cleared log results.")

(***************************************************************************)
(* export_log.  A row is a sequence of fields and a field is the text      *)
(* csv.writer puts there: <<v>> for str(v), the empty text for None.       *)
(***************************************************************************)
BlankField == <<>>
csv_text(v) == <<v>>

header == [i \in 1..15 |->
            csv_text(<<"timestamp", "target_x", "target_y", "target_z",
                       "target_r1", "target_r2", "target_r3",
                       "reached_x", "reached_y", "reached_z",
                       "reached_r1", "reached_r2", "reached_r3",
                       "error", "pass">>[i])]

\* lines 535-541: the row of one Visit result
csv_row(r) ==
  <<csv_text(r.timestamp)>>
    \o [i \in 1..6 |-> csv_text(r.target[i])]
    \o (IF r.reached = None THEN [i \in 1..6 |-> BlankField]
        ELSE [i \in 1..6 |-> csv_text(r.reached[i])])
    \o <<IF r.error = None THEN BlankField ELSE csv_text(r.error[1]),
         csv_text(IF r.pass THEN "True" ELSE "False")>>

\* (variant, C13) results without a reached pose are left out of the file
csv_rows_readable_only(rs) ==
  LET kept == SelectSeq(rs, LAMBDA r : r.reached # None)
  IN  [k \in 1..Len(kept) |-> csv_row(kept[k])]

\* lines 534-541: one row per result
csv_rows(rs) == [k \in 1..Len(rs) |-> csv_row(rs[k])]

\* opened: open(fname, 'w') succeeded
export_log(s, opened) ==
  IF Len(s.results) = 0 THEN log(s, "No results to export.")
  ELSE IF opened
       THEN log([s EXCEPT !.written = <<header>> \o csv_rows(s.results)],
                "Exported log")
       ELSE log(s, "Failed to export log")

(***************************************************************************)
(* The state machine                                                       *)
(***************************************************************************)
Handler(op, args) == [op |-> op, args |-> args]

\* WorkspaceGUI.__init__
Init ==
  /\ mc \in BOOLEAN
  /\ has_stop \in BOOLEAN
  /\ (~mc => ~has_stop)
  /\ current_index = 0
  /\ robot_busy = FALSE
  /\ paused = FALSE
  /\ stopped = FALSE
  /\ pause_btn = FALSE
  /\ colors = IF N > 0 THEN highlight_point([i \in 1..N |-> BLUE], 0)
              ELSE [i \in 1..N |-> BLUE]
  /\ pose_labels = None
  /\ results = <<>>
  /\ pending = 0
  /\ calls = <<>>
  /\ status = <<>>
  /\ exc = NoExc
  /\ written = NoFile
  /\ indexed = <<>>
  /\ outcome = None
  /\ frame = NoFrame
  /\ sent = <<>>
  /\ aborted = FALSE
  /\ last = Handler("__init__", <<>>)

\* a slot has run from state Self to s; an exception it lets escape ends the
\* process (no excepthook is installed, so PyQt5 calls qFatal)
CommitFields(s, h, cap) ==
  \E v \in {s} :    \* the fields as the slot left them
    /\ ~aborted
    /\ v.current_index <= N + MaxOvershoot
    /\ Len(v.results) <= cap
    /\ v.pending <= MaxPending
    /\ mc' = v.mc
    /\ has_stop' = v.has_stop
    /\ current_index' = v.current_index
    /\ robot_busy' = v.robot_busy
    /\ paused' = v.paused
    /\ stopped' = v.stopped
    /\ pause_btn' = v.pause_btn
    /\ colors' = v.colors
    /\ pose_labels' = v.pose_labels
    /\ results' = v.results
    /\ pending' = v.pending
    /\ calls' = v.calls
    /\ status' = v.status
    /\ exc' = v.exc
    /\ written' = v.written
    /\ indexed' = v.indexed
    /\ outcome' = outcome
    /\ frame' = frame
    /\ aborted' = (v.exc # NoExc)
    /\ last' = h

\* no history is kept
CommitUpTo(s, h, cap) == CommitFields(s, h, cap) /\ sent' = sent

Commit(s, h) == CommitUpTo(s, h, MaxResults)

\* kept: the move robot_busy stands for, the last one the hardware accepted
CommitOutstanding(s, h) ==
  /\ CommitFields(s, h, MaxResults)
  /\ sent' = IF ~s.robot_busy THEN <<>>
             ELSE IF Len(s.sent) > Len(sent) THEN <<s.sent[Len(s.sent)]>>
                  ELSE sent

\* kept: every move commanded, up to N + 1 of them
CommitHistory(s, h) ==
  /\ CommitFields(s, h, N)
  /\ Len(s.sent) <= N + 1
  /\ sent' = s.sent

Start ==
  \E speed \in SpeedValues, ok \in BOOLEAN :
    Commit(start_exploration(Self, speed, ok), Handler("start_exploration", <<>>))

\* a click flips the checkable button, then the slot reads it
TogglePause ==
  \E speed \in SpeedValues, ok \in BOOLEAN :
    Commit(toggle_pause([Self EXCEPT !.pause_btn = ~@], speed, ok),
           Handler("toggle_pause", <<>>))

EmergencyStop ==
  \E stop_ok, hold_ok \in BOOLEAN, ans \in GetAnswers(OneReading) :
    Commit(emergency_stop(Self, stop_ok, ans, hold_ok),
           Handler("emergency_stop", <<>>))

Skip ==
  \E speed \in SpeedValues, ok \in BOOLEAN :
    Commit(skip_point(Self, speed, ok), Handler("skip_point", <<>>))

ColorCurrent ==
  Commit(color_current_point(Self), Handler("color_current_point", <<>>))

ClearStop ==
  \E release_ok, home_ok \in BOOLEAN :
    Commit(clear_stop(Self, release_ok, home_ok), Handler("clear_stop", <<>>))

GoHome ==
  \E ok \in BOOLEAN : Commit(go_home(Self, ok), Handler("go_home", <<>>))

Jog ==
  \E b \in JogButtons, ans \in GetAnswers(OneReading),
     speed \in SpeedValues, ok \in BOOLEAN :
    Commit(jog_axis(Self, b[1], b[2], ans, speed, ok), Handler("jog_axis", b))

Tick ==
  \E ans1, ans2 \in GetAnswers(OneReading), mv \in MovingAnswers :
    Commit(check_robot_status(Self, ans1, mv, ans2),
           Handler("check_robot_status", <<>>))

\* the one-shot continuation scheduled by an evaluation fires
Deferred ==
  /\ pending > 0
  /\ \E speed \in SpeedValues, ok \in BOOLEAN :
       Commit(move_to_next_point([Self EXCEPT !.pending = @ - 1], speed, ok),
              Handler("deferred_move_to_next_point", <<>>))

ClearLog == Commit(clear_log(Self), Handler("clear_log", <<>>))

Next ==
  \/ Start
  \/ TogglePause
  \/ EmergencyStop
  \/ Skip
  \/ ColorCurrent
  \/ ClearStop
  \/ GoHome
  \/ Jog
  \/ Tick
  \/ Deferred
  \/ ClearLog

Spec == Init /\ [][Next]_vars

(***************************************************************************)
(* An unattended run: the operator presses Start (and Clear Log) only, and *)
(* the arm may stop anywhere, so every branch of the evaluation is taken.  *)
(***************************************************************************)
TickAnywhere ==
  \E ans1, ans2 \in GetAnswers(Readings), mv \in MovingAnswers :
    Commit(check_robot_status(Self, ans1, mv, ans2),
           Handler("check_robot_status", <<>>))

NextRun ==
  \/ Start
  \/ TickAnywhere
  \/ Deferred
  \/ ClearLog

SpecRun == Init /\ [][NextRun]_vars

(***************************************************************************)
(* The operator at the controls of the sequencing, with the move that      *)
(* robot_busy stands for remembered.                                       *)
(***************************************************************************)
VisitStart ==
  \E speed \in SpeedValues, ok \in BOOLEAN :
    CommitOutstanding(start_exploration(Self, speed, ok),
                      Handler("start_exploration", <<>>))

VisitTogglePause ==
  \E speed \in SpeedValues, ok \in BOOLEAN :
    CommitOutstanding(toggle_pause([Self EXCEPT !.pause_btn = ~@], speed, ok),
                      Handler("toggle_pause", <<>>))

VisitEmergencyStop ==
  \E stop_ok, hold_ok \in BOOLEAN, ans \in GetAnswers(OneReading) :
    CommitOutstanding(emergency_stop(Self, stop_ok, ans, hold_ok),
                      Handler("emergency_stop", <<>>))

VisitSkip ==
  \E speed \in SpeedValues, ok \in BOOLEAN :
    CommitOutstanding(skip_point(Self, speed, ok), Handler("skip_point", <<>>))

VisitClearStop ==
  \E release_ok, home_ok \in BOOLEAN :
    CommitOutstanding(clear_stop(Self, release_ok, home_ok),
                      Handler("clear_stop", <<>>))

VisitJog ==
  \E b \in JogButtons, ans \in GetAnswers(OneReading),
     speed \in SpeedValues, ok \in BOOLEAN :
    CommitOutstanding(jog_axis(Self, b[1], b[2], ans, speed, ok),
                      Handler("jog_axis", b))

VisitTick ==
  \E ans1, ans2 \in GetAnswers(OneReading), mv \in MovingAnswers :
    CommitOutstanding(check_robot_status(Self, ans1, mv, ans2),
                      Handler("check_robot_status", <<>>))

VisitDeferred ==
  /\ pending > 0
  /\ \E speed \in SpeedValues, ok \in BOOLEAN :
       CommitOutstanding(move_to_next_point([Self EXCEPT !.pending = @ - 1],
                                            speed, ok),
                         Handler("deferred_move_to_next_point", <<>>))

NextVisit ==
  \/ VisitStart
  \/ VisitTogglePause
  \/ VisitEmergencyStop
  \/ VisitSkip
  \/ VisitClearStop
  \/ VisitJog
  \/ VisitTick
  \/ VisitDeferred

SpecVisit == Init /\ [][NextVisit]_vars

(***************************************************************************)
(* Only the two timers: the operator presses Start once and then leaves    *)
(* the run alone.  Every move commanded is remembered.                     *)
(***************************************************************************)
StartOnce ==
  /\ last.op = "__init__"
  /\ \E speed \in SpeedValues, ok \in BOOLEAN :
       CommitHistory(start_exploration(Self, speed, ok),
                     Handler("start_exploration", <<>>))

\* the ticks before Start find robot_busy false and only refresh the readout:
\* the run is followed from Start on
TimerTick ==
  /\ last.op # "__init__"
  /\ \E ans1, ans2 \in GetAnswers(Readings), mv \in MovingAnswers :
       CommitHistory(check_robot_status(Self, ans1, mv, ans2),
                     Handler("check_robot_status", <<>>))

TimerDeferred ==
  /\ pending > 0
  /\ \E speed \in SpeedValues, ok \in BOOLEAN :
       CommitHistory(move_to_next_point([Self EXCEPT !.pending = @ - 1],
                                        speed, ok),
                     Handler("deferred_move_to_next_point", <<>>))

NextTimers ==
  \/ StartOnce
  \/ TimerTick
  \/ TimerDeferred

SpecTimers == Init /\ [][NextTimers]_vars

(***************************************************************************)
(* The timers-only run on a healthy arm: the handle exists, every move is  *)
(* accepted and every pose read.  The 200 ms timer keeps firing and the    *)
(* motion ends, so a tick that finds the arm still is not put off for      *)
(* ever; a one-shot timer that was armed fires.                            *)
(***************************************************************************)
ReadableAnswers == {a \in GetAnswers(Readings) : ~a.raises}
StillMoving == [raises |-> FALSE, value |-> TRUE]

InitLive == Init /\ mc

LiveStart ==
  /\ last.op = "__init__"
  /\ \E speed \in SpeedValues :
       CommitHistory(start_exploration(Self, speed, TRUE),
                     Handler("start_exploration", <<>>))

LiveTickMoving ==
  /\ last.op # "__init__"
  /\ \E ans1, ans2 \in ReadableAnswers :
       CommitHistory(check_robot_status(Self, ans1, StillMoving, ans2),
                     Handler("check_robot_status", <<>>))

LiveTickStill ==
  /\ last.op # "__init__"
  /\ \E ans1, ans2 \in ReadableAnswers, mv \in MovingAnswers \ {StillMoving} :
       CommitHistory(check_robot_status(Self, ans1, mv, ans2),
                     Handler("check_robot_status", <<>>))

LiveDeferred ==
  /\ pending > 0
  /\ \E speed \in SpeedValues :
       CommitHistory(move_to_next_point([Self EXCEPT !.pending = @ - 1],
                                        speed, TRUE),
                     Handler("deferred_move_to_next_point", <<>>))

NextLive ==
  \/ LiveStart
  \/ LiveTickMoving
  \/ LiveTickStill
  \/ LiveDeferred

SpecLive ==
  /\ InitLive
  /\ [][NextLive]_vars
  /\ WF_vars(LiveTickStill)
  /\ WF_vars(LiveDeferred)

(***************************************************************************)
(* A logged run: the unattended run with room for MaxLogged results, and   *)
(* the operator exporting the log at any moment.                           *)
(***************************************************************************)
TickLogged ==
  \E ans1, ans2 \in GetAnswers(Readings), mv \in MovingAnswers :
    CommitUpTo(check_robot_status(Self, ans1, mv, ans2),
               Handler("check_robot_status", <<>>), MaxLogged)

ExportLog ==
  \E opened \in BOOLEAN :
    CommitUpTo(export_log(Self, opened), Handler("export_log", <<>>), MaxLogged)

StartLogged ==
  \E speed \in SpeedValues, ok \in BOOLEAN :
    CommitUpTo(start_exploration(Self, speed, ok),
               Handler("start_exploration", <<>>), MaxLogged)

DeferredLogged ==
  /\ pending > 0
  /\ \E speed \in SpeedValues, ok \in BOOLEAN :
       CommitUpTo(move_to_next_point([Self EXCEPT !.pending = @ - 1], speed, ok),
                  Handler("deferred_move_to_next_point", <<>>), MaxLogged)

NextLog ==
  \/ StartLogged
  \/ TickLogged
  \/ DeferredLogged
  \/ ClearLog
  \/ ExportLog

SpecLog == Init /\ [][NextLog]_vars

(***************************************************************************)
(* The handlers that colour the markers or move the cursor, with an arm    *)
(* that may stop anywhere, so every colour appears on the canvas           *)
(***************************************************************************)
NextMarkers ==
  \/ Start
  \/ TogglePause
  \/ EmergencyStop
  \/ ClearStop
  \/ Skip
  \/ ColorCurrent
  \/ TickAnywhere
  \/ Deferred
  \/ ClearLog

SpecMarkers == Init /\ [][NextMarkers]_vars

(***************************************************************************)
(* The canvas on its own: its two methods called with any index and colour *)
(***************************************************************************)
\* the colours the program passes to the canvas
Palette == {BLUE, YELLOW, WHITE, RED, GRAY, GREEN}
\* index arguments, within and on both sides of [0, N)
IndexValues == (0 - 2)..(N + 1)

CanvasUpdate ==
  \E index \in IndexValues, color \in Palette :
    Commit([Self EXCEPT !.colors = update_point_color(@, index, color)],
           Handler("update_point_color", <<index, color>>))

CanvasHighlight ==
  \E index \in IndexValues :
    Commit([Self EXCEPT !.colors = highlight_point(@, index)],
           Handler("highlight_point", <<index>>))

NextCanvas ==
  \/ CanvasUpdate
  \/ CanvasHighlight

SpecCanvas == Init /\ [][NextCanvas]_vars

(***************************************************************************)
(* The grid generator on its own, called with any arguments                *)
(***************************************************************************)
\* (lo, hi) pairs: well formed, one value, reversed, hi off the lattice
RangeValues == {<<0, 100>>, <<0, 0>>, <<100, 0>>, <<0, 120>>}
ZValues == {<<>>, <<100>>, <<100, 40>>}
StepValues == {0, 50, 100}
\* the defaults of the signature
DefaultGrid == <<<<0 - 300, 300>>, <<0 - 300, 300>>, <<40, 50, 100, 200>>, 50>>

GridInputs ==
  {<<xr, yr, zs, st>> : xr \in RangeValues, yr \in RangeValues,
                        zs \in ZValues, st \in StepValues}
    \cup {DefaultGrid}

GridCall ==
  \E a \in GridInputs :
    /\ outcome' = generate_grid_points(a[1], a[2], a[3], a[4])
    /\ last' = Handler("generate_grid_points", a)
    /\ UNCHANGED <<mc, has_stop, current_index, robot_busy, paused, stopped,
                   pause_btn, colors, pose_labels, results, pending, calls,
                   status, exc, written, indexed, frame, sent, aborted>>

SpecGrid == Init /\ [][GridCall]_vars

(***************************************************************************)
(* The polar generator on its own, one turn of its innermost loop at a     *)
(* time                                                                    *)
(***************************************************************************)
PolarFrame(f, h) ==
  /\ frame' = f
  /\ last' = h
  /\ UNCHANGED <<mc, has_stop, current_index, robot_busy, paused, stopped,
                 pause_btn, colors, pose_labels, results, pending, calls,
                 status, exc, written, indexed, sent, aborted>>

PolarCall ==
  /\ frame.zi = 0
  /\ outcome' = None
  /\ PolarFrame(polar_entry, Handler("generate_points", <<>>))

PolarEmit ==
  /\ frame.zi > 0 /\ ~polar_returning(frame)
  /\ polar_emits(frame)
  /\ UNCHANGED outcome
  /\ PolarFrame(polar_step(frame), Handler("generate_points", <<>>))

PolarSkip ==
  /\ frame.zi > 0 /\ ~polar_returning(frame)
  /\ ~polar_emits(frame)
  /\ UNCHANGED outcome
  /\ PolarFrame(polar_step(frame), Handler("generate_points", <<>>))

PolarReturn ==
  /\ polar_returning(frame)
  /\ outcome' = Returns(frame.points)
  /\ PolarFrame(NoFrame, Handler("generate_points.return", <<>>))

NextPolar ==
  \/ PolarCall
  \/ PolarEmit
  \/ PolarSkip
  \/ PolarReturn

SpecPolar == Init /\ [][NextPolar]_vars

TypeOK ==
  /\ mc \in BOOLEAN /\ has_stop \in BOOLEAN
  /\ current_index \in 0..(N + MaxOvershoot)
  /\ robot_busy \in BOOLEAN /\ paused \in BOOLEAN /\ stopped \in BOOLEAN
  /\ pending \in 0..MaxPending
  /\ Len(results) <= MaxResults

(***************************************************************************)
(* Vocabulary of the properties                                            *)
(***************************************************************************)
Ops(cs) == [i \in 1..Len(cs) |-> cs[i].op]
IsPoseOfSet(c) == \E i \in 1..N : c = points[i]
\* the send_coords calls that aim at a pose of the set
TargetMoves(cs) == SelectSeq(cs, LAMBDA c : c.op = "send_coords"
                                           /\ IsPoseOfSet(c.coords))
\* commands that set the arm in motion
MoveCommands(cs) == SelectSeq(cs, LAMBDA c : c.op \in {"send_coords",
                                                       "send_angles"})
Ran(op) == last'.op = op
\* the tick evaluated a point in this step
Evaluated == Ran("check_robot_status") /\ Len(results') = Len(results) + 1

(***************************************************************************)
(* C1  Emergency stop latches stopped and paused whatever the hardware     *)
(* does (stop capability present, absent or raising, no handle at all),    *)
(* and while the latch holds Start is refused: it issues no call, and the  *)
(* cursor, paused and stopped keep their values.  Only clear_stop lifts    *)
(* the latch.                                                              *)
(***************************************************************************)
C1_StopLatchRefusesStart ==
  [][ /\ Ran("emergency_stop") => (stopped' /\ paused' /\ exc' = NoExc)
      /\ (stopped /\ Ran("start_exploration"))
           => /\ calls' = <<>>
              /\ current_index' = current_index
              /\ paused' = paused
              /\ stopped'
              /\ robot_busy' = robot_busy
      /\ (stopped /\ ~stopped') => Ran("clear_stop") ]_vars

\* Start was refused after a stop on an arm without the stop capability
C1_Witness ==
  /\ last.op = "start_exploration"
  /\ stopped /\ paused /\ mc /\ ~has_stop
  /\ calls = <<>>
  /\ status = <<"System stopped. Clear stop to start.">>

(***************************************************************************)
(* C2  stopped stays true until clear_stop runs, and while it is true no   *)
(* handler other than emergency_stop, clear_stop and go_home commands a    *)
(* motion: Start, the callers of move_to_next_point (Skip, the pause       *)
(* toggle, the deferred continuation) and Jog all refuse.                  *)
(***************************************************************************)
C2_StoppedUntilReset ==
  [][ /\ (stopped /\ ~Ran("clear_stop")) => stopped'
      /\ (stopped /\ last'.op \in {"start_exploration", "skip_point",
                                   "toggle_pause", "jog_axis",
                                   "deferred_move_to_next_point",
                                   "check_robot_status",
                                   "color_current_point", "clear_log"})
           => MoveCommands(calls') = <<>> ]_vars

\* a continuation scheduled before the stop fired after it, and did nothing
C2_Witness ==
  /\ last.op = "deferred_move_to_next_point"
  /\ stopped /\ mc /\ current_index < N
  /\ calls = <<>>
  /\ status = <<"Move to next aborted: paused/stopped.">>

(***************************************************************************)
(* C3  While paused, the sequencing does not advance: a handler that ends  *)
(* paused has sent no move toward a pose of the set; a tick that finds     *)
(* paused true evaluates nothing (no result, cursor, busy flag, colours    *)
(* and pending continuations unchanged); a continuation that fires while   *)
(* paused calls nothing.                                                   *)
(***************************************************************************)
C3_PausedHoldsSequencing ==
  [][ /\ TargetMoves(calls') # <<>> => ~paused'
      /\ (paused /\ Ran("check_robot_status"))
           => /\ results' = results
              /\ current_index' = current_index
              /\ robot_busy' = robot_busy
              /\ colors' = colors
              /\ pending' = pending
      /\ (paused /\ Ran("deferred_move_to_next_point")) => calls' = <<>> ]_vars

\* the operator paused between an evaluation and its continuation
C3_Witness ==
  /\ last.op = "deferred_move_to_next_point"
  /\ paused /\ ~stopped /\ mc
  /\ current_index = 1 /\ Len(results) = 1
  /\ calls = <<>>

(***************************************************************************)
(* C4  An evaluation leaves robot_busy false and the cursor one further,   *)
(* sends no move in that tick and schedules exactly one continuation; the  *)
(* tick never sends a move; the continuation sends the move toward the     *)
(* pose at the cursor, and only when neither paused nor stopped.           *)
(***************************************************************************)
C4_EvaluationDefersNextMove ==
  [][ /\ Evaluated
           => /\ ~robot_busy'
              /\ current_index' = current_index + 1
              /\ pending' = pending + 1
              /\ robot_busy
      /\ Ran("check_robot_status") => MoveCommands(calls') = <<>>
      /\ (Ran("deferred_move_to_next_point") /\ calls' # <<>>)
           => /\ ~paused /\ ~stopped
              /\ pending' = pending - 1
              /\ current_index' = current_index
              /\ Len(calls') = 1
              /\ calls'[1].op = "send_coords"
              /\ calls'[1].coords = points[current_index + 1] ]_vars

\* after the evaluation of pose 0 the continuation sent the move to pose 1
C4_Witness ==
  /\ last.op = "deferred_move_to_next_point"
  /\ current_index = 1 /\ Len(results) = 1
  /\ results[1].target = points[1]
  /\ Len(calls) = 1 /\ calls[1].coords = points[2] /\ ~calls[1].raised
  /\ robot_busy

(***************************************************************************)
(* C5  The evaluation of a readable final pose takes                       *)
(* error = |dx| + |dy| + |dz| over the position only and passes iff        *)
(* error < 10: error 10 gives a red marker and passed = false, error 6 a   *)
(* white marker and passed = true; an unreadable final pose gives a gray   *)
(* marker and a result with reached and error absent and passed = false.   *)
(***************************************************************************)
Dist(a, b) == IF a >= b THEN a - b ELSE b - a

C5_EvaluationVerdict ==
  [][ Evaluated =>
        LET r == results'[Len(results')]
            marker == colors'[current_index + 1]
            e == Dist(r.reached[1], r.target[1]) + Dist(r.reached[2], r.target[2])
                   + Dist(r.reached[3], r.target[3])
        IN  /\ r.target = points[current_index + 1]
            /\ SubSeq(results', 1, Len(results)) = results
            /\ IF r.reached = None
               THEN r.error = None /\ r.pass = FALSE /\ marker = GRAY
               ELSE /\ r.error = <<e>>
                    /\ r.pass = (e < 10)
                    /\ marker = (IF e < 10 THEN WHITE ELSE RED)
            /\ (r.target = <<0, 0, 100, 180, 0, 0>>
                  /\ r.reached = <<5, 5, 100, 180, 0, 0>>)
                 => (r.error = <<10>> /\ ~r.pass /\ marker = RED)
            /\ (r.target = <<0, 0, 100, 180, 0, 0>>
                  /\ r.reached = <<3, 3, 100, 90, 0, 0>>)
                 => (r.error = <<6>> /\ r.pass /\ marker = WHITE) ]_vars

\* pose 0 was reached with an error of exactly 10 and failed
C5_Witness ==
  /\ last.op = "check_robot_status"
  /\ Len(results) = 1
  /\ results[1].reached = <<5, 5, 100, 180, 0, 0>>
  /\ results[1].error = <<10>> /\ ~results[1].pass
  /\ colors[1] = RED

(***************************************************************************)
(* C6  No handler lets a hardware failure escape: whether the handle is    *)
(* absent or a call on it raises, every handler returns normally.          *)
(* go_home and clear_stop call the handle unguarded, so this fails.        *)
(***************************************************************************)
C6_NoHandlerPropagates == exc = NoExc

(***************************************************************************)
(* C7  skip_point moves the cursor forward by exactly one in every run     *)
(* state and appends no Visit result.                                      *)
(***************************************************************************)
C7_SkipAdvancesByOne ==
  [][ Ran("skip_point")
        => /\ current_index' = current_index + 1
           /\ results' = results
           /\ paused' = paused /\ stopped' = stopped
           /\ pending' = pending ]_vars

\* a skip while stopped, from the end of the pose set
C7_Witness ==
  /\ last.op = "skip_point"
  /\ stopped /\ paused
  /\ current_index = N + 1

(***************************************************************************)
(* C8  As claimed (C8_SkipAlwaysMoves, stated for a connected arm): after  *)
(* skip_point, whenever the new cursor is within the pose set, a move      *)
(* toward the pose at the new cursor is issued.                            *)
(* As amended (C8_SkipMovesUnlessHeld): that move is issued exactly when,  *)
(* in addition, neither paused nor stopped holds and the connection handle *)
(* exists; otherwise skip_point calls nothing on the hardware.             *)
(***************************************************************************)
C8_SkipAlwaysMoves ==
  [][ (Ran("skip_point") /\ current_index' < N /\ mc)
        => \E i \in 1..Len(calls') :
             /\ calls'[i].op = "send_coords"
             /\ calls'[i].coords = points[current_index' + 1] ]_vars

C8_SkipMovesUnlessHeld ==
  [][ (Ran("skip_point") /\ current_index' < N)
        => IF ~paused /\ ~stopped /\ mc
           THEN /\ Len(calls') = 1
                /\ calls'[1].op = "send_coords"
                /\ calls'[1].coords = points[current_index' + 1]
                /\ robot_busy' = ~calls'[1].raised
           ELSE calls' = <<>> /\ robot_busy' = robot_busy ]_vars

\* a skip while paused on a connected arm moved the cursor and sent nothing
C8_Witness ==
  /\ last.op = "skip_point"
  /\ current_index = 1 /\ current_index < N
  /\ paused /\ ~stopped /\ mc
  /\ calls = <<>>

(***************************************************************************)
(* C9  jog_axis(axis, delta) sends exactly one move, to the pose it read   *)
(* with delta added to component axis and the five others unchanged,       *)
(* exactly when neither paused nor stopped and the pose is readable;       *)
(* paused or stopped it calls nothing, and with an unreadable pose it      *)
(* sends no command.                                                       *)
(***************************************************************************)
C9_JogTarget ==
  [][ Ran("jog_axis") =>
        LET axis == last'.args[1]
            delta == last'.args[2]
        IN  IF paused \/ stopped \/ ~mc THEN calls' = <<>>
            ELSE /\ Len(calls') >= 1
                 /\ calls'[1].op = "get_coords"
                 /\ IF calls'[1].ret = None
                    THEN Len(calls') = 1
                    ELSE /\ Len(calls') = 2
                         /\ calls'[2].op = "send_coords"
                         /\ \A i \in 1..6 :
                              calls'[2].coords[i] =
                                calls'[1].ret[i]
                                  + (IF i = axis + 1 THEN delta ELSE 0)
                         /\ robot_busy' = ~calls'[2].raised ]_vars

\* Z jogged by +15 from (5, 5, 100, 180, 0, 0)
C9_Witness ==
  /\ last = Handler("jog_axis", <<2, 15>>)
  /\ Len(calls) = 2
  /\ calls[1].ret = <<5, 5, 100, 180, 0, 0>>
  /\ calls[2].op = "send_coords"
  /\ calls[2].coords = <<5, 5, 115, 180, 0, 0>>

(***************************************************************************)
(* C10  clear_stop on a connected arm: with stopped false it changes       *)
(* nothing and calls nothing; with stopped true it clears stopped,         *)
(* commands the torque release and then home, and leaves paused,           *)
(* robot_busy, the cursor and the results unchanged.  A release that       *)
(* raises escapes clear_stop before home is commanded, so this fails.      *)
(***************************************************************************)
C10_ClearStopReleasesThenHomes ==
  [][ (Ran("clear_stop") /\ mc) =>
        /\ paused' = paused /\ robot_busy' = robot_busy
        /\ current_index' = current_index /\ results' = results
        /\ pause_btn' = pause_btn /\ pending' = pending
        /\ colors' = colors /\ pose_labels' = pose_labels
        /\ IF stopped
           THEN ~stopped' /\ Ops(calls') = <<"release_all_servos", "send_angles">>
           ELSE ~stopped' /\ calls' = <<>> ]_vars

(***************************************************************************)
(* C11  As claimed (C11_SkippedTickDoesNothing): a tick that fires while   *)
(* the pose set is exhausted, or paused, or stopped calls nothing on the   *)
(* hardware, leaves the pose readout as it was and changes no run-state    *)
(* flag, cursor, marker colour or result.                                  *)
(* As amended (C11_SkippedTickOnlyRefreshesReadout): such a tick still     *)
(* reads the pose once when the handle exists and shows it in the readout  *)
(* when the read succeeded; it makes no other call and changes no          *)
(* run-state flag, cursor, marker colour, result or pending continuation.  *)
(***************************************************************************)
TickHeld == Ran("check_robot_status")
              /\ (current_index >= N \/ paused \/ stopped)

TickFrame ==
  /\ robot_busy' = robot_busy /\ paused' = paused /\ stopped' = stopped
  /\ current_index' = current_index /\ colors' = colors
  /\ results' = results /\ pending' = pending /\ pause_btn' = pause_btn

\* C11 as claimed: a skipped tick calls nothing and changes neither the readout
\* nor the run state
C11_SkippedTickDoesNothing ==
  [][ TickHeld => (calls' = <<>> /\ pose_labels' = pose_labels /\ TickFrame)
    ]_vars

\* C11 as amended: a skipped tick reads the pose once and refreshes the readout,
\* and does nothing else
C11_SkippedTickOnlyRefreshesReadout ==
  [][ TickHeld =>
        /\ TickFrame
        /\ exc' = NoExc
        /\ IF mc
           THEN /\ Ops(calls') = <<"get_coords">>
                /\ pose_labels' = IF calls'[1].ret = None THEN pose_labels
                                  ELSE [i \in 1..6 |-> 10 * calls'[1].ret[i]]
           ELSE calls' = <<>> /\ pose_labels' = pose_labels ]_vars

\* a tick while paused, with a move outstanding, read the pose and showed it
C11_Witness ==
  /\ last.op = "check_robot_status"
  /\ paused /\ ~stopped /\ robot_busy /\ current_index < N
  /\ Ops(calls) = <<"get_coords">>
  /\ calls[1].ret = <<5, 5, 100, 180, 0, 0>>
  /\ pose_labels = <<50, 50, 1000, 1800, 0, 0>>
  /\ results = <<>>

(***************************************************************************)
(* C12  As claimed (C12_OutOfRangeLeavesColors): for every index outside   *)
(* [0, N), update_point_color and highlight_point leave every entry of the *)
(* colour array unchanged and raise nothing, whatever colours it holds.    *)
(* As amended (C12_OutOfRangeHighlightResets): update_point_color does;    *)
(* highlight_point raises nothing and marks no entry yellow, but it still  *)
(* resets every entry that is neither white nor red to blue, so it leaves  *)
(* the array unchanged exactly when it holds only blue, white and red.     *)
(***************************************************************************)
OutOfRange(op) == Ran(op) /\ ~(0 <= last'.args[1] /\ last'.args[1] < N)

\* C12 as claimed: an index outside [0, N) leaves the colour array unchanged
C12_OutOfRangeLeavesColors ==
  [][ (OutOfRange("update_point_color") \/ OutOfRange("highlight_point"))
        => (colors' = colors /\ exc' = NoExc) ]_vars

\* C12 as amended: out of range, update_point_color changes nothing and
\* highlight_point only resets the entries that are neither white nor red
C12_OutOfRangeHighlightResets ==
  [][ /\ OutOfRange("update_point_color") => (colors' = colors /\ exc' = NoExc)
      /\ OutOfRange("highlight_point")
           => /\ exc' = NoExc
              /\ \A i \in 1..N :
                   colors'[i] = IF colors[i] \in {WHITE, RED} THEN colors[i]
                                ELSE BLUE
              /\ (colors' = colors)
                   <=> (\A i \in 1..N : colors[i] \in {BLUE, WHITE, RED}) ]_vars

\* highlight_point(-1) ran: the red marker stayed and no marker is yellow
C12_Witness ==
  /\ last = Handler("highlight_point", <<0 - 1>>)
  /\ colors[1] = RED /\ colors[N] = BLUE
  /\ \A i \in 1..N : colors[i] \in {BLUE, WHITE, RED}

(***************************************************************************)
(* C13  export_log never changes the recorded results.  With no result it  *)
(* writes no file.  With n >= 1 results the file it writes has exactly     *)
(* n + 1 rows: the header, then for k = 1..n the row of the k-th result    *)
(* (its timestamp, its six target values, its six reached values, its      *)
(* error and its verdict), the six reached fields being blank exactly when *)
(* that result has no reached pose.  The only export with results that     *)
(* leaves no file is the one whose file could not be opened, which logs    *)
(* the failure.                                                            *)
(***************************************************************************)
ReachedFields(row) == SubSeq(row, 8, 13)

\* C13: no file without results; otherwise the header and one row per result in
\* order, reached fields blank exactly for absent poses; results untouched
C13_ExportWritesHeaderAndRows ==
  [][ Ran("export_log") =>
        /\ results' = results
        /\ exc' = NoExc
        /\ Len(results) = 0 => written' = NoFile
        /\ Len(results) >= 1 =>
             \/ written' = NoFile /\ status' = <<"Failed to export log">>
             \/ /\ status' = <<"Exported log">>
                /\ Len(written') = Len(results) + 1
                /\ \A i \in 1..15 : Len(written'[1][i]) = 1
                /\ written'[1][1] = <<"timestamp">>
                /\ written'[1][8] = <<"reached_x">>
                /\ written'[1][15] = <<"pass">>
                /\ \A k \in 1..Len(results) :
                     LET row == written'[k + 1]
                         r == results[k]
                     IN  /\ Len(row) = 15
                         /\ row[1] = <<r.timestamp>>
                         /\ \A i \in 1..6 : row[1 + i] = <<r.target[i]>>
                         /\ (\A i \in 1..6 : ReachedFields(row)[i] = BlankField)
                              <=> r.reached = None
                         /\ r.reached # None
                              => (\A i \in 1..6 :
                                    ReachedFields(row)[i] = <<r.reached[i]>>)
                         /\ row[14] = (IF r.error = None THEN BlankField
                                       ELSE r.error)
                         /\ row[15] = <<IF r.pass THEN "True" ELSE "False">>
    ]_vars

\* two results exported, the first without a reached pose, the second with
C13_Witness ==
  /\ last.op = "export_log"
  /\ Len(results) = 2
  /\ results[1].target = points[1] /\ results[1].reached = None
  /\ results[2].target = points[2] /\ results[2].reached # None
  /\ Len(written) = 3
  /\ written[2][8] = BlankField /\ written[2][2] = <<0>>
  /\ written[3][8] = <<5>> /\ written[3][2] = <<50>>

(***************************************************************************)
(* C14  As claimed (C14_GridIsProductNoError): generate_grid_points never  *)
(* raises and returns the Cartesian product of the X values lo, lo + step, *)
(* ... up to hi inclusive, the Y values likewise, and the Z values, in the *)
(* order Z (as given), X ascending, Y ascending, every pose with           *)
(* orientation (180, 0, 0) and none filtered out; the defaults give        *)
(* 13 x 13 x 4 = 676 poses; a range with hi < lo gives an empty sequence   *)
(* and one with hi = lo a single value.                                    *)
(* As amended (C14_GridIsProductForPositiveStep): all of that for a        *)
(* positive step; with a step of 0 the call raises ValueError unless       *)
(* z_values is empty.                                                      *)
(***************************************************************************)
GridCalled == last.op = "generate_grid_points"
AxisCount(r, step) == IF r[2] < r[1] THEN 0 ELSE (r[2] - r[1]) \div step + 1

GridIsProduct ==
  LET xr == last.args[1]
      yr == last.args[2]
      zs == last.args[3]
      step == last.args[4]
      nx == AxisCount(xr, step)
      ny == AxisCount(yr, step)
      v == outcome.value
  IN  /\ outcome.exc = NoExc
      /\ Len(v) = Len(zs) * nx * ny
      /\ \A k \in 1..Len(v) :
           v[k] = << xr[1] + (((k - 1) \div ny) % nx) * step,
                     yr[1] + ((k - 1) % ny) * step,
                     zs[(k - 1) \div (nx * ny) + 1],
                     180, 0, 0 >>
      /\ last.args = DefaultGrid
           => /\ Len(v) = 676 /\ nx = 13 /\ ny = 13
              /\ v[1] = <<0 - 300, 0 - 300, 40, 180, 0, 0>>
              /\ v[676] = <<300, 300, 200, 180, 0, 0>>
      /\ (xr[2] < xr[1] \/ yr[2] < yr[1]) => v = <<>>
      /\ (xr[2] = xr[1] /\ yr[2] = yr[1] /\ Len(zs) = 1) => Len(v) = 1

\* C14 as claimed: the call never raises, and returns the ordered product
C14_GridIsProductNoError ==
  GridCalled => (outcome.exc = NoExc /\ (last.args[4] > 0 => GridIsProduct))

\* C14 as amended: the ordered product for a positive step; ValueError for a
\* step of 0 unless there is no Z value
C14_GridIsProductForPositiveStep ==
  GridCalled =>
    IF last.args[4] > 0 THEN GridIsProduct
    ELSE outcome.exc = (IF last.args[3] = <<>> THEN NoExc ELSE "ValueError")

\* two Z layers over a 3 x 2 lattice whose Y range ends off the lattice
C14_Witness ==
  /\ last = Handler("generate_grid_points",
                    <<<<0, 100>>, <<0, 120>>, <<100, 40>>, 50>>)
  /\ Len(outcome.value) = 18
  /\ outcome.value[4] = <<50, 0, 100, 180, 0, 0>>
  /\ outcome.value[10] = <<0, 0, 40, 180, 0, 0>>

(***************************************************************************)
(* C15  The polar generator never emits a pose farther than 280.00 mm from *)
(* the origin (x^2 + y^2 + z^2 <= 280^2).  What it has emitted is, at      *)
(* every moment, the samples taken so far in the order layer, then radius  *)
(* ascending, then angle index, with those out of reach left out and       *)
(* nothing put in their place; every pose has orientation (180, 0, 0); the *)
(* first one emitted is (20.00, 0.00, 40.00, 180.00, 0.00, 0.00).          *)
(***************************************************************************)
PolarRunning == last.op = "generate_points"
PolarReturned == last.op = "generate_points.return"
Emitted == IF PolarReturned THEN outcome.value ELSE frame.points

RadiiPerLayer == MAX_RADIUS \div RADIUS_STEP
SamplesPerLayer == RadiiPerLayer * ANGLE_STEPS
\* samples the loops have gone through
SamplesTaken ==
  IF PolarReturned THEN Len(Z_LAYERS) * SamplesPerLayer
  ELSE IF frame.zi > Len(Z_LAYERS) THEN Len(Z_LAYERS) * SamplesPerLayer
  ELSE (frame.zi - 1) * SamplesPerLayer
         + (frame.radius \div RADIUS_STEP - 1) * ANGLE_STEPS + frame.i
\* the n-th sample (from 0) of the order layer, radius, angle index
SampleAt(n) ==
  LET z == Z_LAYERS[n \div SamplesPerLayer + 1]
      radius == RADIUS_STEP * (((n \div ANGLE_STEPS) % RadiiPerLayer) + 1)
      i == n % ANGLE_STEPS
  IN  <<round_cos(radius, i), round_sin(radius, i), 100 * z, 18000, 0, 0>>
InReach(p) == p[1] * p[1] + p[2] * p[2] + p[3] * p[3] <= 28000 * 28000

\* C15: every pose emitted is within reach, in sample order, nothing replaces a
\* skipped sample, and the first is (20.00, 0.00, 40.00, 180.00, 0.00, 0.00)
C15_PolarWithinReach ==
  (PolarRunning \/ PolarReturned) =>
    /\ \A k \in 1..Len(Emitted) :
         /\ InReach(Emitted[k])
         /\ SubSeq(Emitted[k], 4, 6) = <<18000, 0, 0>>
    /\ Emitted = SelectSeq([n \in 1..SamplesTaken |-> SampleAt(n - 1)], InReach)
    /\ Len(Emitted) >= 1 => Emitted[1] = <<2000, 0, 4000, 18000, 0, 0>>

\* the generator returned: 480 samples, the 12 of radius 200 at height 200 left out
C15_Witness ==
  /\ PolarReturned
  /\ Len(outcome.value) = 468
  /\ outcome.value[1] = <<2000, 0, 4000, 18000, 0, 0>>
  /\ outcome.value[2] = <<1732, 1000, 4000, 18000, 0, 0>>
  /\ outcome.value[468] = <<15588, 0 - 9000, 20000, 18000, 0, 0>>

(***************************************************************************)
(* C16  A Visit result is appended for the cursor index only when a move   *)
(* toward the pose at the cursor was issued and is not yet evaluated:      *)
(* whenever the tick evaluates, the move robot_busy stands for targeted    *)
(* points[cursor].  jog_axis raises robot_busy for a pose that is not the  *)
(* target, and skip_point moves the cursor under an outstanding move, so   *)
(* this fails.                                                             *)
(***************************************************************************)
C16_ResultOnlyForOutstandingMove ==
  [][ Evaluated => /\ robot_busy
                   /\ Len(sent) = 1
                   /\ sent[1].accepted
                   /\ sent[1].coords = points[current_index + 1] ]_vars

(***************************************************************************)
(* C17  No double dispatch: at most one deferred continuation is pending   *)
(* at any time, and a continuation that fires while an earlier move still  *)
(* awaits its evaluation (robot_busy true) commands no move.               *)
(* move_to_next_point does not look at robot_busy, and an evaluation       *)
(* schedules a continuation whether or not one is pending, so this fails.  *)
(***************************************************************************)
C17_NoDoubleDispatch ==
  [][ /\ pending' <= 1
      /\ (Ran("deferred_move_to_next_point") /\ robot_busy)
           => MoveCommands(calls') = <<>> ]_vars

(***************************************************************************)
(* C18  With only the two timers running after Start: a tick that finds    *)
(* robot_busy false (as the evaluation left it) evaluates nothing and      *)
(* commands no move; while a continuation is pending robot_busy is false   *)
(* and it is the only one; every index the cursor has passed received      *)
(* exactly one move command and exactly one evaluation, the index at the   *)
(* cursor at most one move command and no evaluation, and the indices      *)
(* beyond it neither.                                                      *)
(***************************************************************************)
MovesTo(i) == Len(SelectSeq(sent, LAMBDA m : m.coords = points[i + 1]))
EvaluationsOf(i) == Len(SelectSeq(results, LAMBDA r : r.target = points[i + 1]))

OncePerIndex ==
  /\ pending > 0 => (pending = 1 /\ ~robot_busy)
  /\ \A i \in 0..(N - 1) :
       /\ i < current_index => (MovesTo(i) = 1 /\ EvaluationsOf(i) = 1)
       /\ i = current_index => (MovesTo(i) <= 1 /\ EvaluationsOf(i) = 0)
       /\ i > current_index => (MovesTo(i) = 0 /\ EvaluationsOf(i) = 0)
  /\ Len(sent) <= N /\ Len(results) = current_index

\* C18: an idle tick neither evaluates nor moves, and each index gets one move
\* and one evaluation
C18_OneMoveOneEvaluationPerIndex ==
  /\ []OncePerIndex
  /\ [][ (Ran("check_robot_status") /\ ~robot_busy)
           => /\ results' = results
              /\ current_index' = current_index
              /\ pending' = pending
              /\ ~robot_busy'
              /\ sent' = sent
              /\ MoveCommands(calls') = <<>> ]_vars

\* a tick between the evaluation of pose 0 and its continuation did nothing
C18_Witness ==
  /\ last.op = "check_robot_status"
  /\ pending = 1 /\ ~robot_busy
  /\ current_index = 1 /\ Len(results) = 1 /\ Len(sent) = 1
  /\ Ops(calls) = <<"get_coords", "is_moving">>

(***************************************************************************)
(* C19  On a connected arm that accepts every move, whose motion ends and  *)
(* whose pose is readable, once Start has been pressed at cursor 0 and the *)
(* run is left alone, the cursor eventually reaches N with exactly N Visit *)
(* results, the k-th with target points[k]; from then on that stays so and *)
(* no further move is commanded (N moves in all, one per pose, in order).  *)
(***************************************************************************)
RunComplete ==
  /\ current_index = N
  /\ Len(results) = N
  /\ \A k \in 1..N : results[k].target = points[k]
  /\ Len(sent) = N
  /\ \A k \in 1..N : sent[k].coords = points[k] /\ sent[k].accepted

\* C19: after Start the run completes, and once complete nothing more is sent
C19_RunVisitsEveryPose ==
  /\ (last.op = "start_exploration") ~> RunComplete
  /\ [][ RunComplete => (RunComplete' /\ MoveCommands(calls') = <<>>) ]_vars

\* the continuation after the last evaluation found the pose set exhausted
C19_Witness ==
  /\ RunComplete
  /\ last.op = "deferred_move_to_next_point"
  /\ status = <<"Exploration finished.">>
  /\ calls = <<>> /\ pending = 0 /\ ~robot_busy

(***************************************************************************)
(* C20  In the handlers that send through safe_mc_send_coords (Start,      *)
(* Skip, the pause toggle, the continuation, Jog): robot_busy is true      *)
(* afterwards exactly when the hardware accepted the command and false     *)
(* when the call raised; without a handle nothing is called and robot_busy *)
(* keeps its value.  robot_busy never becomes true in any other way, so    *)
(* with no robot connected it is never true and no Visit result is ever    *)
(* recorded.                                                               *)
(***************************************************************************)
Senders == {"start_exploration", "skip_point", "toggle_pause",
            "deferred_move_to_next_point", "jog_axis"}
Sends(cs) == SelectSeq(cs, LAMBDA c : c.op = "send_coords")

\* C20: robot_busy is true after a send exactly when the hardware accepted it,
\* and never without a handle
C20_BusyIffAccepted ==
  /\ [](~mc => (~robot_busy /\ results = <<>>))
  /\ [][ /\ last'.op \in Senders =>
              /\ ~mc => (calls' = <<>> /\ robot_busy' = robot_busy)
              /\ Sends(calls') # <<>>
                   => /\ Len(Sends(calls')) = 1
                      /\ robot_busy' = ~Sends(calls')[1].raised
              /\ Sends(calls') = <<>> => robot_busy' = robot_busy
         /\ (~robot_busy /\ robot_busy')
              => /\ last'.op \in Senders
                 /\ Sends(calls') # <<>>
                 /\ ~Sends(calls')[1].raised ]_vars

\* the send_coords of the continuation raised: robot_busy is false
C20_Witness ==
  /\ last.op = "deferred_move_to_next_point"
  /\ mc /\ ~robot_busy
  /\ Len(calls) = 1 /\ calls[1].op = "send_coords" /\ calls[1].raised
  /\ status = <<"Moving to target", "send_coords failed">>
  /\ Len(results) = 1

(***************************************************************************)
(* C21  The cursor changes only by +1, in a tick that evaluates or in a    *)
(* Skip, or by Start setting it to 0 from a value at or past the end of    *)
(* the pose set; so the tick and the continuation never decrease it.       *)
(* Skips can take it beyond N, yet every subscript applied to the pose set *)
(* (by the tick's evaluation and by move_to_next_point) is the cursor and  *)
(* lies in [0, N): no handler raises IndexError.                           *)
(***************************************************************************)
Automated == {"check_robot_status", "deferred_move_to_next_point"}

\* C21: the cursor moves by +1 or by Start's restart from the end, and the
\* pose set is subscripted only with a cursor inside [0, N)
C21_CursorStepsAndIndexing ==
  /\ [](current_index >= 0)
  /\ [][ /\ current_index' # current_index
              => \/ /\ current_index' = current_index + 1
                    /\ Evaluated \/ Ran("skip_point")
                 \/ /\ Ran("start_exploration")
                    /\ current_index >= N
                    /\ current_index' = 0
         /\ Evaluated => current_index' = current_index + 1
         /\ Ran("skip_point") => current_index' = current_index + 1
         /\ last'.op \in Automated => current_index' >= current_index
         /\ \A k \in 1..Len(indexed') :
              /\ 0 <= indexed'[k] /\ indexed'[k] < N
              /\ indexed'[k] = IF Evaluated THEN current_index
                               ELSE current_index'
         /\ Evaluated => Len(indexed') = 1
         /\ exc' # "IndexError" ]_vars

\* Start found the cursor at or beyond the end of the pose set, restarted
\* from 0 and subscripted the pose set with 0
C21_Witness ==
  /\ last.op = "start_exploration"
  /\ current_index = 0
  /\ status = <<"Starting exploration.", "Restarting from index 0.",
                "Moving to target">>
  /\ indexed = <<0>>
  /\ Len(results) = 1

(***************************************************************************)
(* C22  paused always equals the checked state of the Pause button         *)
(* (emergency stop sets both, Start clears both), so the click that runs   *)
(* toggle_pause flips paused.  A toggle to paused calls nothing; a toggle  *)
(* to not-paused calls nothing while robot_busy is true.                   *)
(* As claimed (C22_ResumeAlwaysMoves, stated for a connected arm and a     *)
(* cursor inside the pose set): a toggle to not-paused with robot_busy     *)
(* false issues the move toward the pose at the cursor.                    *)
(* As amended (C22_ResumeMovesUnlessHeld): it does so exactly when, in     *)
(* addition, stopped is false, the cursor is inside the pose set and the   *)
(* connection handle exists; otherwise it calls nothing.                   *)
(***************************************************************************)
\* the one call of the step is the move toward the pose at the cursor
MovedToCursor ==
  /\ Len(calls') = 1
  /\ calls'[1].op = "send_coords"
  /\ current_index < N
  /\ calls'[1].coords = points[current_index + 1]

\* C22 as claimed: un-pausing with no move outstanding issues the move toward
\* the pose at the cursor
C22_ResumeAlwaysMoves ==
  [][ (Ran("toggle_pause") /\ ~paused' /\ ~robot_busy /\ mc
         /\ current_index < N)
        => MovedToCursor ]_vars

\* C22 as amended: the toggle flips paused; un-pausing with no move
\* outstanding issues the move toward the pose at the cursor unless stopped,
\* past the end or without a handle; every other toggle calls nothing
C22_ResumeMovesUnlessHeld ==
  /\ [](paused = pause_btn)
  /\ [][ /\ (paused /\ ~paused') => last'.op \in {"toggle_pause",
                                                   "start_exploration"}
         /\ (~paused /\ paused') => last'.op \in {"toggle_pause",
                                                   "emergency_stop"}
         /\ Ran("toggle_pause")
              => /\ paused' = ~paused
                 /\ current_index' = current_index
                 /\ stopped' = stopped
                 /\ results' = results /\ pending' = pending
                 /\ exc' = NoExc
                 /\ IF ~paused' /\ ~robot_busy /\ ~stopped /\ mc
                       /\ current_index < N
                    THEN MovedToCursor /\ robot_busy' = ~calls'[1].raised
                    ELSE calls' = <<>> /\ robot_busy' = robot_busy ]_vars

\* after an emergency stop the operator released the Pause button on an idle,
\* connected arm: paused is cleared and no move is sent
C22_Witness ==
  /\ last.op = "toggle_pause"
  /\ ~paused /\ ~pause_btn /\ stopped
  /\ mc /\ ~robot_busy /\ current_index < N
  /\ calls = <<>>
  /\ status = <<"Resumed exploration.", "Move to next aborted: paused/stopped.">>

(***************************************************************************)
(* C23  In emergency_stop the hold, one send_coords to the pose just read  *)
(* at speed 1, is issued exactly when the stop call was not made (no       *)
(* handle, no stop capability) or raised, and get_coords then returned a   *)
(* pose.  It is the last call of the handler, so it is issued at most once *)
(* and not retried when it raises; the handler returns normally and        *)
(* leaves robot_busy and the cursor as they were.                          *)
(***************************************************************************)
StopWorked(cs) == \E i \in 1..Len(cs) : cs[i].op = "stop" /\ ~cs[i].raised
PoseReads(cs) == SelectSeq(cs, LAMBDA c : c.op = "get_coords")

\* C23: the fallback hold is sent once, at speed 1, to the pose read, exactly
\* when the hardware stop did not work and the pose is readable; its failure
\* is swallowed, and robot_busy and the cursor keep their values
C23_FallbackHold ==
  [][ Ran("emergency_stop")
        => LET holds == Sends(calls')
               reads == PoseReads(calls')
           IN  /\ \A i \in 1..Len(calls') :
                    calls'[i].op \in {"stop", "get_coords", "send_coords"}
               /\ (\E i \in 1..Len(calls') : calls'[i].op = "stop")
                    <=> (mc /\ has_stop)
               /\ Len(holds) <= 1
               /\ ~mc => calls' = <<>>
               /\ StopWorked(calls') => (holds = <<>> /\ reads = <<>>)
               /\ (mc /\ ~StopWorked(calls'))
                    => /\ Len(reads) = 1
                       /\ (holds # <<>>) <=> ~reads[1].raised
               /\ holds # <<>>
                    => /\ holds[1].coords = reads[1].ret
                       /\ holds[1].speed = HoldSpeed
                       /\ calls'[Len(calls')] = holds[1]
                       /\ status'[Len(status')] =
                            IF holds[1].raised
                            THEN "Fallback hold command failed"
                            ELSE "Issued low-speed hold command to current pose."
               /\ exc' = NoExc
               /\ robot_busy' = robot_busy
               /\ current_index' = current_index
               /\ results' = results /\ pending' = pending ]_vars

\* the stop call raised while a move was outstanding, the pose was read and
\* the hold raised too: three calls, none repeated, robot_busy still true
C23_Witness ==
  /\ last.op = "emergency_stop"
  /\ mc /\ has_stop /\ robot_busy /\ stopped
  /\ Ops(calls) = <<"stop", "get_coords", "send_coords">>
  /\ calls[1].raised /\ ~calls[2].raised /\ calls[3].raised
  /\ calls[3].coords = calls[2].ret /\ calls[3].speed = HoldSpeed
  /\ status[Len(status)] = "Fallback hold command failed"
  /\ exc = NoExc

(***************************************************************************)
(* C24  A highlight pass leaves a marker that is success white or failure  *)
(* red as it is, unless it is the marker being highlighted, and sets every *)
(* other marker except the highlighted one (yellow, gray, green, blue) to  *)
(* unvisited blue; the highlighted one becomes yellow.  So a white or red  *)
(* marker changes colour only when the handler acts on its own index, and  *)
(* at most one marker is yellow in every reachable state.                  *)
(***************************************************************************)
\* highlight_point ran in this step: start_exploration calls it right after
\* logging "Starting exploration.", move_to_next_point right after logging the
\* target; in both the index is the cursor the step ends with
HighlightRan ==
  \E k \in 1..Len(status') :
    status'[k] \in {"Starting exploration.", "Moving to target"}
Verdicts == {WHITE, RED}
Yellows == {i \in 1..N : colors[i] = YELLOW}

\* C24: the highlight pass keeps white and red markers of other indices, turns
\* every other marker blue, and at most one marker is ever yellow
C24_HighlightKeepsVerdicts ==
  /\ [](Cardinality(Yellows) <= 1)
  /\ [][ /\ HighlightRan
              => /\ current_index' < N
                 /\ colors'[current_index' + 1] = YELLOW
                 /\ \A i \in 1..N :
                      i # current_index' + 1
                        => colors'[i] = IF colors[i] \in Verdicts
                                        THEN colors[i] ELSE BLUE
         /\ \A i \in 1..N :
              (colors[i] \in Verdicts /\ colors'[i] # colors[i])
                => \/ HighlightRan /\ i = current_index' + 1
                   \/ Evaluated /\ i = current_index + 1
                   \/ Ran("color_current_point") /\ i = current_index + 1
         /\ \A i \in 1..N :
              (colors'[i] = YELLOW /\ colors[i] # YELLOW) => HighlightRan ]_vars

\* the continuation highlighted marker 1 after marker 0 had been evaluated a
\* success: marker 0 is still white and marker 1 is the only yellow one
C24_Witness ==
  /\ last.op = "deferred_move_to_next_point"
  /\ current_index = 1 /\ N >= 2
  /\ colors[1] = WHITE /\ colors[2] = YELLOW
  /\ status[1] = "Moving to target"
====
